---- MODULE Spec2Model ----
(***************************************************************************)
(* merge.c - merge MIDI streams.                                           *)
(*                                                                         *)
(* The model covers the merging engine: the worker threads (run, putmsg,   *)
(* putbyte, getbyte), the shared State (two mutexes and the running        *)
(* status byte) and the reaping loop of main.  It starts where main        *)
(* launches the threads; argument parsing and open() are not modelled.     *)
(*                                                                         *)
(* One step of a worker is one blocking operation (read, write or mutex    *)
(* lock) together with the straight-line code that follows it up to the    *)
(* next blocking operation.  global.status is only touched with            *)
(* global.lock held, so this granularity loses no interleaving.            *)
(* mss[i].done is a plain bool written by the worker and polled by main;   *)
(* between two polls main calls usleep or pthread_join, so it re-reads     *)
(* memory each time and a late-visible store behaves like a late store.    *)
(***************************************************************************)
EXTENDS Integers, Sequences, FiniteSets, Bags, TLC

(* ---------------- bounds ---------------- *)
NWorkers == 2        \* number of input streams (out in main)
MaxLen == 1          \* longest generated input, besides the scenarios
MaxCount == 1        \* largest value the uninitialised count may hold

Workers == 1..NWorkers

(* ---------------- bytes ---------------- *)
RECURSIVE BitAndN(_, _, _)
BitAndN(a, b, n) ==
    IF n = 0 THEN 0
    ELSE (IF a % 2 = 1 /\ b % 2 = 1 THEN 1 ELSE 0)
         + 2 * BitAndN(a \div 2, b \div 2, n - 1)

BitAnd(a, b) == BitAndN(a, b, 8)

IS_CHANNEL(b) == BitAnd(b, 128) # 0      \* (b) & 0x80
IS_SYSRT(b)   == BitAnd(b, 248) # 0      \* (b) & 0xF8
IS_SYSTEM(b)  == BitAnd(b, 240) # 0      \* (b) & 0xF0
IS_SOX(b)     == b = 240                 \* (b) == 0xF0
IS_EOX(b)     == b = 247                 \* (b) == 0xF7

\* msglen[16], index k of the C array is element k+1 here
msglen == << 0, 1, 2, 1, 0, 0, 0, 0, 2, 2, 2, 2, 1, 1, 2, 0 >>

(* ---------------- inputs ---------------- *)
\* 0x00, 0x05, 0x90 (Note On), 0xF8 (clock)
Alphabet == { 0, 5, 144, 248 }

RECURSIVE SeqsUpTo(_, _)
SeqsUpTo(S, n) ==
    IF n = 0 THEN { << >> }
    ELSE LET shorter == SeqsUpTo(S, n - 1)
         IN  shorter \cup { Append(s, x) : s \in shorter, x \in S }

Scenarios ==
    { << 144, 60, 127 >>,            \* 90 3C 7F
      << 176, 7, 248, 100 >>,        \* B0 07 F8 64
      << 240, 126, 247 >>,           \* F0 7E F7
      << 248, 248 >>,                \* F8 F8
      << 0, 5, 144 >>,               \* 00 05 90
      << 60, 127 >>,                 \* 3C 7F
      << 144, 60, 127, 60, 0 >>,     \* 90 3C 7F 3C 00
      << 246 >>,                     \* F6 (Tune Request)
      << 0, 144 >> }                 \* 00 90

Inputs == Scenarios \cup SeqsUpTo(Alphabet, MaxLen)

\* what the other streams carry: nothing, a data byte, a clock byte,
\* a Note On
PeerInputs == { << >>, << 5 >>, << 248 >>, << 144, 64, 127 >> }

\* values the uninitialised local count of run may be read as (line 157/197)
CountVals == -1 .. MaxCount

\* results of the blocking write(fd, &byte, 1): the byte went out, or an
\* error
WriteResults == { 1, -1 }

VARIABLES
    input,      \* input[w]: the bytes behind mss[w].fd
    pos,        \* pos[w]: bytes of input[w] already read
    th,         \* th[w]: locals of run and putmsg, and the thread's position
    done,       \* mss[w].done
    joined,     \* mss[w].joined
    io,         \* mss[w].io
    term,       \* which exit each worker took
    global,     \* State: lock, lock_rt, status
    sink,       \* what global.fd has received, with who wrote it, where,
                \* and which locks the writer owned
    sv          \* main: position, loop index i, local done, exit status

vars == << input, pos, th, done, joined, io, term, global, sink, sv >>

\* results of read(fd, &byte, 1): a byte, end of file, or an error
ReadResults(w) ==
    IF pos[w] < Len(input[w]) THEN { 1, -1 } ELSE { 0, -1 }

GetPcs  == { "top", "pm_get", "sx_get" }
PutPcs  == { "rt_put", "pm_status", "pm_first", "pm_put", "sx_put", "sx_eox" }
LockPcs == { "lock_rt", "lock_msg", "sx_lock_rt" }

Init ==
    /\ input \in [Workers -> Inputs \cup PeerInputs]
    /\ input[1] \in Inputs
    /\ \A w \in Workers \ {1} : input[w] \in PeerInputs
    /\ pos = [w \in Workers |-> 0]
    /\ th = [w \in Workers |->
               [pc |-> "top", byte |-> 0, status |-> 0,
                count |-> 0, count_set |-> FALSE,
                pbyte |-> 0, i |-> 0, cnt |-> 0, site |-> "none"]]
    /\ done = [w \in Workers |-> FALSE]
    /\ joined = [w \in Workers |-> FALSE]
    /\ io = [w \in Workers |-> [retval |-> 0, error |-> "0"]]
    /\ term = [w \in Workers |-> "running"]
    /\ global = [lock |-> {}, lock_rt |-> {}, status |-> 0]
    /\ sink = << >>
    /\ sv = [pc |-> "for", i |-> 1, done |-> TRUE, exit |-> -1]

(* ---------------- run / putmsg, as transformers of c = [t, g] ---------- *)
\* t: the thread's locals, g: the shared State

\* putmsg returns into run: lines 188/193, then UNLOCK(lockp) at 199
Return(c) ==
    [t |-> [c.t EXCEPT !.status = IF c.t.site = "set" THEN c.t.byte ELSE @,
                       !.pc = "top"],
     g |-> [c.g EXCEPT !.lock = {}]]

\* while( i <= count ) at line 133
LoopTest(c) ==
    IF c.t.i <= c.t.cnt THEN [c EXCEPT !.t.pc = "pm_get"] ELSE Return(c)

\* putmsg(mss, status, byte, count), lines 103-132 up to the first write
PutmsgEntry(c, cnt) ==
    LET t0 == [c.t EXCEPT !.pbyte = c.t.byte, !.cnt = cnt, !.i = 0]
        c0 == [c EXCEPT !.t = t0]
    IN  IF t0.pbyte = t0.status
        THEN IF c.g.status # t0.status
             THEN [c0 EXCEPT !.t.pc = "pm_status"]
             ELSE LoopTest(c0)
        ELSE IF c.g.status # t0.status
             THEN [c0 EXCEPT !.t.pc = "pm_status"]
             ELSE [c0 EXCEPT !.t.pc = "pm_first"]

\* the branches under LOCK(lockp), lines 173-198; cv is the value read
\* from count when it was never assigned
Dispatch(c, cv) ==
    LET b == c.t.byte
    IN  IF IS_SOX(b)
        THEN [c EXCEPT !.t.pc = "sx_lock_rt"]
        ELSE IF IS_SYSTEM(b)
        THEN LET n == msglen[BitAnd(b, 15) + 1]
             IN  PutmsgEntry([c EXCEPT !.t.count = n, !.t.count_set = TRUE,
                                       !.t.site = "set"], n)
        ELSE IF IS_CHANNEL(b)
        THEN LET n == msglen[(b \div 16) + 1]
             IN  PutmsgEntry([c EXCEPT !.t.count = n, !.t.count_set = TRUE,
                                       !.t.site = "set"], n)
        ELSE PutmsgEntry([c EXCEPT !.t.site = "keep"],
                         IF c.t.count_set THEN c.t.count ELSE cv)

\* what follows a write that returned 0 (putbyte returns to its caller),
\* by position
AfterPut(c) ==
    LET p == c.t.pc
    IN  CASE p = "rt_put" ->            \* UNLOCK(rtlockp); continue
               [t |-> [c.t EXCEPT !.pc = "top"],
                g |-> [c.g EXCEPT !.lock_rt = {}]]
          [] p = "pm_status" ->         \* lines 117-119 or 128-130
               LET c1 == [c EXCEPT !.g.status = c.t.status]
               IN  IF c.t.pbyte = c.t.status
                   THEN LoopTest([c1 EXCEPT !.t.i = 0])
                   ELSE [c1 EXCEPT !.t.pc = "pm_first"]
          [] p = "pm_first" ->          \* line 131
               LoopTest([c EXCEPT !.t.i = 1])
          [] p = "pm_put" ->            \* lines 144-146
               LoopTest([c EXCEPT !.t.i =
                            IF ~IS_SYSRT(c.t.pbyte) THEN @ + 1 ELSE @])
          [] p = "sx_put" ->            \* line 179
               [c EXCEPT !.t.pc = "sx_get"]
          [] p = "sx_eox" ->            \* lines 182-183, 199
               [t |-> [c.t EXCEPT !.pc = "top"],
                g |-> [c.g EXCEPT !.status = 0, !.lock_rt = {}, !.lock = {}]]

\* the byte a write at this position sends
PutArg(t) ==
    CASE t.pc = "pm_status" -> t.status
      [] t.pc \in { "pm_first", "pm_put" } -> t.pbyte
      [] OTHER -> t.byte

\* AfterGet without the test of lines 135-142: a status byte read inside a
\* message is handed to putbyte
AfterGet_NoFramingTest(t, b) ==
    CASE t.pc = "top" ->
           [t EXCEPT !.byte = b,
                     !.pc = IF IS_SYSRT(b) THEN "lock_rt" ELSE "lock_msg"]
      [] t.pc = "pm_get" ->
           [t EXCEPT !.pbyte = b, !.pc = "pm_put"]
      [] t.pc = "sx_get" ->
           [t EXCEPT !.byte = b,
                     !.pc = IF ~IS_EOX(b) THEN "sx_put" ELSE "sx_eox"]

\* what follows a successful read, by position
AfterGet(t, b) ==
    CASE t.pc = "top" ->                \* lines 160-172
           [t EXCEPT !.byte = b,
                     !.pc = IF IS_SYSRT(b) THEN "lock_rt" ELSE "lock_msg"]
      [] t.pc = "pm_get" ->             \* lines 134-143
           [t EXCEPT !.pbyte = b,
                     !.pc = IF IS_CHANNEL(b) THEN "framing" ELSE "pm_put"]
      [] t.pc = "sx_get" ->             \* lines 179-181
           [t EXCEPT !.byte = b,
                     !.pc = IF ~IS_EOX(b) THEN "sx_put" ELSE "sx_eox"]

\* the test of putbyte, line 80, and of getbyte, line 91
putbyte_exits(retval) == retval # 0
getbyte_exits(retval) == retval <= 0

(* ---------------- worker actions ---------------- *)
\* getbyte, and the code of its caller up to the next blocking call
GetByte(w) ==
    /\ ~done[w]
    /\ th[w].pc \in GetPcs
    /\ \E r \in ReadResults(w) :
         IF getbyte_exits(r)
         THEN /\ io' = [io EXCEPT ![w] =
                           [retval |-> r,
                            error |-> IF r < 0 THEN "errno" ELSE "0"]]
              /\ done' = [done EXCEPT ![w] = TRUE]
              /\ term' = [term EXCEPT ![w] =
                           IF r = 0 THEN "end_of_input" ELSE "io_read"]
              /\ th' = [th EXCEPT ![w].pc = "exited"]
              /\ UNCHANGED pos
         ELSE LET b == input[w][pos[w] + 1]
                  t == AfterGet(th[w], b)
              IN  /\ pos' = [pos EXCEPT ![w] = @ + 1]
                  /\ IF t.pc = "framing"          \* lines 138-141
                     THEN /\ io' = [io EXCEPT ![w] =
                                      [retval |-> -1, error |-> "EINVAL"]]
                          /\ done' = [done EXCEPT ![w] = TRUE]
                          /\ term' = [term EXCEPT ![w] = "framing"]
                          /\ th' = [th EXCEPT ![w] =
                                      [t EXCEPT !.pc = "exited"]]
                     ELSE /\ io' = [io EXCEPT ![w].retval = r]
                          /\ th' = [th EXCEPT ![w] = t]
                          /\ UNCHANGED << done, term >>
    /\ UNCHANGED << input, joined, global, sink, sv >>

\* putbyte, and the code of its caller up to the next blocking call.
\* pthread_exit releases no mutex: the default mutexes of State stay owned
\* by a thread that exits between LOCK and UNLOCK.
PutByte(w) ==
    /\ ~done[w]
    /\ th[w].pc \in PutPcs
    /\ \E r \in WriteResults :
         /\ sink' = IF r = 1
                    THEN Append(sink, [byte |-> PutArg(th[w]), by |-> w,
                                       at |-> th[w].pc,
                                       msg |-> w \in global.lock,
                                       rt |-> w \in global.lock_rt])
                    ELSE sink
         /\ IF putbyte_exits(r)
            THEN /\ io' = [io EXCEPT ![w] =
                             [retval |-> r,
                              error |-> IF r < 0 THEN "errno" ELSE "0"]]
                 /\ done' = [done EXCEPT ![w] = TRUE]
                 /\ term' = [term EXCEPT ![w] = "io_write"]
                 /\ th' = [th EXCEPT ![w].pc = "exited"]
                 /\ UNCHANGED global
            ELSE LET c == AfterPut([t |-> th[w], g |-> global])
                 IN  /\ io' = [io EXCEPT ![w].retval = r]
                     /\ th' = [th EXCEPT ![w] = c.t]
                     /\ global' = c.g
                     /\ UNCHANGED << done, term >>
    /\ UNCHANGED << input, pos, joined, sv >>

\* pthread_mutex_lock, and the code that follows it
Lock(w) ==
    /\ ~done[w]
    /\ th[w].pc \in LockPcs
    /\ CASE th[w].pc = "lock_rt" ->       \* line 166
              /\ global.lock_rt = {}
              /\ global' = [global EXCEPT !.lock_rt = {w}]
              /\ th' = [th EXCEPT ![w].pc = "rt_put"]
         [] th[w].pc = "sx_lock_rt" ->    \* line 176
              /\ global.lock_rt = {}
              /\ global' = [global EXCEPT !.lock_rt = {w}]
              /\ th' = [th EXCEPT ![w].pc = "sx_put"]
         [] th[w].pc = "lock_msg" ->      \* line 172
              /\ global.lock = {}
              /\ \E cv \in CountVals :
                   LET c == Dispatch([t |-> th[w],
                                      g |-> [global EXCEPT !.lock = {w}]], cv)
                   IN  /\ th' = [th EXCEPT ![w] = c.t]
                       /\ global' = c.g
    /\ UNCHANGED << input, pos, done, joined, io, term, sink, sv >>

(* ---------------- main, lines 262-280 ---------------- *)
\* ++i and what follows it without touching shared memory: the test of the
\* for loop, the test of while( !done ), done = true, and the end of main
Advance(v) ==
    IF v.i + 1 <= NWorkers
    THEN [v EXCEPT !.i = @ + 1]
    ELSE IF v.done
         THEN [v EXCEPT !.pc = "returned", !.exit = 0, !.i = @ + 1]
         ELSE [v EXCEPT !.i = 1, !.done = TRUE]

\* Reap without the test of mss[i].done: joins whatever it visits
Reap_JoinsUnseen ==
    /\ sv.pc = "for"
    /\ IF joined[sv.i]
       THEN /\ sv' = Advance(sv)
            /\ UNCHANGED joined
       ELSE /\ joined' = [joined EXCEPT ![sv.i] = TRUE]
            /\ sv' = Advance(sv)
    /\ UNCHANGED << input, pos, th, done, io, term, global, sink >>

\* one pass of the body of for( i = 0; i < out; ++i ), lines 267-277
Reap ==
    /\ sv.pc = "for"
    /\ IF joined[sv.i]
       THEN /\ sv' = Advance(sv)
            /\ UNCHANGED joined
       ELSE IF done[sv.i]
       THEN /\ joined' = [joined EXCEPT ![sv.i] = TRUE]
            /\ sv' = Advance(sv)
       ELSE /\ sv' = Advance([sv EXCEPT !.done = FALSE])
            /\ UNCHANGED joined
    /\ UNCHANGED << input, pos, th, done, io, term, global, sink >>

Next ==
    \/ \E w \in Workers : GetByte(w)
    \/ \E w \in Workers : PutByte(w)
    \/ \E w \in Workers : Lock(w)
    \/ Reap

Spec == Init /\ [][Next]_vars

\* Every thread is scheduled, read and write return, and main keeps polling.
\* A lock is granted only when it is free, so a thread that waits for a
\* mutex nobody releases is not owed a step.
FairSpec ==
    /\ Spec
    /\ \A w \in Workers :
         WF_vars(GetByte(w)) /\ WF_vars(PutByte(w)) /\ WF_vars(Lock(w))
    /\ WF_vars(Reap)

(* ---------------- MIDI 1.0, for reading inputs and the sink ------------ *)
IsRealTime(b) == b >= 248                \* 0xF8..0xFF
IsStatus(b)   == b >= 128

\* data bytes that follow a status byte (spec 4.1)
DataLen(s) ==
    IF s >= 240 THEN msglen[(s % 16) + 1] ELSE msglen[(s \div 16) + 1]

\* Decoder state: rs running status (0: none), cur the message being
\* received, insx inside a SysEx, msgs the complete messages with running
\* status expanded, ok no framing violation so far.
DecodeInit ==
    [rs |-> 0, cur |-> << >>, insx |-> FALSE, msgs |-> << >>, ok |-> TRUE]

Complete(d) ==
    IF Len(d.cur) = 1 + DataLen(d.cur[1])
    THEN [d EXCEPT !.msgs = Append(@, d.cur), !.cur = << >>]
    ELSE d

DecodeByte(d, b) ==
    IF IsRealTime(b) THEN d
    ELSE IF d.insx
    THEN IF b = 247
         THEN [d EXCEPT !.msgs = Append(@, Append(d.cur, b)),
                        !.cur = << >>, !.insx = FALSE, !.rs = 0]
         ELSE IF IsStatus(b) THEN [d EXCEPT !.ok = FALSE]
         ELSE [d EXCEPT !.cur = Append(@, b)]
    ELSE IF IsStatus(b)
    THEN LET d1 == [d EXCEPT !.ok = @ /\ d.cur = << >>]
         IN  IF b = 240
             THEN [d1 EXCEPT !.cur = << b >>, !.insx = TRUE, !.rs = 0]
             ELSE Complete([d1 EXCEPT !.cur = << b >>,
                                      !.rs = IF b < 240 THEN b ELSE 0])
    ELSE IF d.cur # << >>
    THEN Complete([d EXCEPT !.cur = Append(@, b)])
    ELSE IF d.rs = 0
    THEN [d EXCEPT !.ok = FALSE]
    ELSE Complete([d EXCEPT !.cur = << d.rs, b >>])

RECURSIVE DecodeFrom(_, _, _)
DecodeFrom(s, k, d) ==
    IF k > Len(s) THEN d ELSE DecodeFrom(s, k + 1, DecodeByte(d, s[k]))

Decode(s) == DecodeFrom(s, 1, DecodeInit)

\* only complete, well-formed messages
WellFormed(s) ==
    LET d == Decode(s) IN d.ok /\ d.cur = << >> /\ ~d.insx

Count(x, s) == Cardinality({ k \in DOMAIN s : s[k] = x })
Range(s) == { s[k] : k \in DOMAIN s }

RECURSIVE IsSubseqFrom(_, _, _, _)
IsSubseqFrom(a, i, b, j) ==
    IF i > Len(a) THEN TRUE
    ELSE IF j > Len(b) THEN FALSE
    ELSE IF a[i] = b[j] THEN IsSubseqFrom(a, i + 1, b, j + 1)
    ELSE IsSubseqFrom(a, i, b, j + 1)

IsSubseq(a, b) == IsSubseqFrom(a, 1, b, 1)

RECURSIVE CountAll(_, _, _)
CountAll(x, f, n) ==
    IF n = 0 THEN 0 ELSE Count(x, f[n]) + CountAll(x, f, n - 1)

\* s is made of the items of the sequences f[1..NWorkers], each once, those
\* of one f[w] in their order (what every interleaving satisfies)
Merges(s, f) ==
    /\ \A w \in Workers : IsSubseq(f[w], s)
    /\ \A x \in Range(s) \cup UNION { Range(f[w]) : w \in Workers } :
         Count(x, s) = CountAll(x, f, NWorkers)

(* ---------------- observations ---------------- *)
SinkBytes == [k \in DOMAIN sink |-> sink[k].byte]
WrittenBy(w) ==
    LET own == SelectSeq(sink, LAMBDA e : e.by = w)
    IN  [k \in DOMAIN own |-> own[k].byte]

AllDone == \A w \in Workers : done[w]
\* a write returned an error
WriteFailed == \E w \in Workers : term[w] = "io_write" /\ io[w].retval < 0
\* a read returned an error
ReadFailed == \E w \in Workers : term[w] = "io_read"

\* Each worker leaves through putbyte on its first write, whatever write
\* returned, so it puts at most one byte on the sink.
OneByteEach == \A w \in Workers : Len(WrittenBy(w)) <= 1

\* No worker ever holds a status other than 0x00, and global.status never
\* leaves 0x00: the branches that assign them need a byte below 0x08 that
\* is a status byte.
NoStatusEver ==
    /\ global.status = 0
    /\ \A w \in Workers : th[w].status = 0

(* ---------------- claims ---------------- *)

\* C1: with well-formed inputs and a sink that takes every write, once all
\* workers have terminated the sink, running status expanded, is made of
\* the messages of the inputs, each once and those of one input in order,
\* and holds no partial or orphan byte.
C1_SinkIsInterleaving ==
    (AllDone /\ ~WriteFailed /\ ~ReadFailed
       /\ \A w \in Workers : WellFormed(input[w]))
    => /\ WellFormed(SinkBytes)
       /\ Merges(Decode(SinkBytes).msgs,
                 [w \in Workers |-> Decode(input[w]).msgs])

\* C5: with no read error and no write error, once all workers have
\* terminated the real-time bytes of the sink are those of the inputs, each
\* once, and those of one input in its order.
C5_RealTimePreserved ==
    (AllDone /\ ~WriteFailed /\ ~ReadFailed)
    => Merges(SelectSeq(SinkBytes, IsRealTime),
              [w \in Workers |-> SelectSeq(input[w], IsRealTime)])

\* C6: a worker that has terminated owns neither msg_lock nor rt_lock.
C6_NoLockHeldByDone ==
    \A w \in Workers : done[w] => w \notin (global.lock \cup global.lock_rt)

\* C8: when main returns, its exit status is 0 exactly when every worker
\* ended on a clean end of input.
C8_ExitStatus ==
    sv.pc = "returned"
    => (sv.exit = 0 <=> \A w \in Workers : term[w] = "end_of_input")

\* C9: under fair scheduling every worker sets done, main joins every
\* worker and main's loop returns.
C9_Terminates ==
    <>(sv.pc = "returned" /\ \A w \in Workers : done[w] /\ joined[w])

\* C10: the input B0 07 F8 64, read without error into a sink that takes
\* every write, is on the sink as B0 07 F8 64 once its worker has terminated.
C10_RealTimeInsideMessage ==
    \A w \in Workers :
       (input[w] = << 176, 7, 248, 100 >> /\ done[w]
          /\ term[w] # "io_read" /\ ~WriteFailed)
       => WrittenBy(w) = << 176, 7, 248, 100 >>

\* C11: a worker whose first byte is a data byte (it has no status yet)
\* writes nothing, and when it has terminated it did so on a framing error.
C11_DataByteWithoutStatus ==
    \A w \in Workers :
       (pos[w] >= 1 /\ ~IsStatus(input[w][1]))
       => /\ WrittenBy(w) = << >>
          /\ (done[w] => term[w] = "framing")

\* C12: a worker leaves through putbyte only when write did not return 1.
C12_OneByteWriteIsSuccess ==
    \A w \in Workers : term[w] = "io_write" => io[w].retval # 1

\* no live worker is between the first and the last byte of a message
Quiet ==
    \A w \in Workers :
       ~done[w] => (th[w].pc \in { "top", "lock_rt", "lock_msg" })

\* the status the last complete message of the sink leaves as running
\* status: its status byte, 0x00 after a SysEx or when there is none
LastStatus ==
    LET m == Decode(SinkBytes).msgs
    IN  IF m = << >> THEN 0
        ELSE IF m[Len(m)][1] = 240 THEN 0 ELSE m[Len(m)][1]

\* C13: while no worker is inside a message, global.status is the status
\* byte of the last complete non-real-time message of the sink, 0x00 when
\* there is none or it was a SysEx.
C13_GlobalStatusTracksSink ==
    Quiet => global.status = LastStatus

\* C14: every non-real-time byte of the sink was written by a worker that
\* owned msg_lock at that moment.
C14_NonRealTimeUnderMsgLock ==
    \A k \in DOMAIN sink : ~IsRealTime(sink[k].byte) => sink[k].msg

\* two live workers each wait for a lock the other owns
Waits(w, l) ==
    /\ ~done[w]
    /\ \/ th[w].pc = "lock_msg" /\ l = "lock"
       \/ th[w].pc \in { "lock_rt", "sx_lock_rt" } /\ l = "lock_rt"

Owns(w, l) ==
    IF l = "lock" THEN w \in global.lock ELSE w \in global.lock_rt

CircularWait ==
    \E v, w \in Workers : \E k, l \in { "lock", "lock_rt" } :
       v # w /\ Waits(v, k) /\ Owns(w, k) /\ Waits(w, l) /\ Owns(v, l)

\* C15: no worker asks for msg_lock while it owns rt_lock, every byte from
\* the F0 of a SysEx to its F7 is written with both locks owned, and no two
\* live workers wait for each other.
C15_LockOrder ==
    /\ \A w \in Workers : Waits(w, "lock") => ~Owns(w, "lock_rt")
    /\ \A k \in DOMAIN sink :
          (sink[k].byte = 240 \/ sink[k].at \in { "sx_put", "sx_eox" })
          => (sink[k].msg /\ sink[k].rt)
    /\ ~CircularWait

\* C16: done never returns to false and is set by the worker's own exit;
\* joined never returns to false and is set by main, for the worker it is
\* visiting, when that worker's done is already true.
C16_DoneJoinedOnce ==
    [][\A w \in Workers :
          /\ done[w] => done'[w]
          /\ joined[w] => joined'[w]
          /\ (done'[w] # done[w])
             => (th[w].pc # "exited" /\ th'[w].pc = "exited" /\ sv' = sv)
          /\ (joined'[w] # joined[w])
             => (done[w] /\ sv.pc = "for" /\ sv.i = w /\ th' = th)]_vars

\* main has joined a worker
C16_Witness == \E w \in Workers : joined[w] /\ done[w]

\* C17: the input 90 3C 7F 3C 00, read without error into a sink that takes
\* every write, is on the sink as 90 3C 7F 3C 00 once its worker has
\* terminated (two Note On of two data bytes each).
C17_TwoNoteOn ==
    \A w \in Workers :
       (input[w] = << 144, 60, 127, 60, 0 >> /\ done[w]
          /\ term[w] # "io_read" /\ ~WriteFailed)
       => WrittenBy(w) = << 144, 60, 127, 60, 0 >>

\* C18: a byte read at the top of the loop is on the real-time path exactly
\* when it is in F8..FF, and a byte written there was written with rt_lock
\* and without msg_lock.
C18_RealTimePath ==
    /\ \A w \in Workers :
          /\ th[w].pc \in { "lock_rt", "rt_put" } => IsRealTime(th[w].byte)
          /\ th[w].pc = "lock_msg" => ~IsRealTime(th[w].byte)
    /\ \A k \in DOMAIN sink :
          sink[k].at = "rt_put"
          => (IsRealTime(sink[k].byte) /\ sink[k].rt /\ ~sink[k].msg)

\* C19: a worker that reads a status byte in 80..F7 where putmsg expects a
\* data byte terminates on a framing error in that step without writing,
\* and writes nothing afterwards.
C19_StatusInsideMessage ==
    [][\A w \in Workers :
          /\ (th[w].pc = "pm_get" /\ pos'[w] = pos[w] + 1
                /\ input[w][pos'[w]] \in 128 .. 247)
             => (done'[w] /\ term'[w] = "framing" /\ sink' = sink)
          /\ term[w] = "framing" => WrittenBy(w)' = WrittenBy(w)]_vars

\* a worker ended on a framing error at a status byte in 80..F7
C19_Witness ==
    \E w \in Workers :
       /\ term[w] = "framing"
       /\ pos[w] >= 1
       /\ input[w][pos[w]] \in 128 .. 247

====
